---- MODULE Spec2Model ----
(***************************************************************************)
(* AI Pipeline Guardian: the /webhook handler (app/main.py), the failure   *)
(* classifier (app/ai_analyzer.py) and the fix generator                   *)
(* (app/vertex_ai_fixer.py), modelled as a state machine.                  *)
(*                                                                         *)
(* A webhook delivery is a coroutine.  Its position (pc) is the await at   *)
(* which it is suspended; one action resumes it with the result of that    *)
(* await and runs the synchronous code up to the next await that really    *)
(* suspends (the aiohttp calls and asyncio.sleep).  analyze_failure,       *)
(* suggest_fix and the Firestore saves contain no suspending await and so  *)
(* run inside the action that reaches them.                                *)
(*                                                                         *)
(* Python values: a dict is a function whose DOMAIN is its key set; None   *)
(* is the string None; a job log is the set of log lines it contains,      *)
(* drawn from LogTokens.  Time is counted in minutes.                      *)
(***************************************************************************)
EXTENDS Integers, Sequences, FiniteSets, TLC

\* ------------------------------------------------------------------ bounds
NumDeliveries == 2
MaxInFlight == 1
MaxJobs == 2
MaxLogLines == 2
MaxNow == 10
TickMinutes == 5
MaxTimeout == 600       \* the largest current_timeout given to the timeout fix

\* ------------------------------------------------------- program constants
PipelineWindow == 10
MRWindow == 60
DatetimeMin == -100000

\* ------------------------------------------------------- Python dict helpers
EmptyDict == [k \in {} |-> "x"]

Get(d, k, default) == IF k \in DOMAIN d THEN d[k] ELSE default

Put(d, k, v) == (k :> v) @@ d

None == "None"

Missing == "<missing>"

\* Python truthiness of a string-or-None value ('' and None are falsy).
Truthy(v) == v \notin {None, Missing, ""}

\* error_details as returned by json.loads: a mapping, null, or any other
\* JSON value (string, number, list).
DictVal(m) == [tag |-> "dict", map |-> m]

NoneVal == [tag |-> "none", map |-> EmptyDict]

OtherVal == [tag |-> "other", map |-> EmptyDict]

\* The key is absent from the JSON object.
MissingVal == [tag |-> "missing", map |-> EmptyDict]

\* ------------------------------------------------------------ job logs
LogTokens ==
  { "py_module",    \* ModuleNotFoundError: No module named 'pandas'
    "js_module",    \* Error: Cannot find module 'express'
    "npm_err",      \* npm ERR! code ELIFECYCLE
    "timed_out",    \* ERROR: Job failed: execution took longer than 1h0m0s - timed out
    "yarn",         \* yarn install v1.22.19
    "go_pkg",       \* main.go:5:2: cannot find package "github.com/gin-gonic/gin"
    "gem",          \* Could not find 'nokogiri' in any of the sources (Bundler::GemNotFound)
    "pom",          \* [ERROR] Failed to execute goal on project app: pom.xml
    "test_failed",  \* FAILED: 2 tests failed with AssertionError
    "import_err" }  \* ImportError: cannot import name 'x'

JobNames == {"", "build", "go build", "ai_guardian:report"}

Logs == {l \in SUBSET LogTokens : Cardinality(l) <= MaxLogLines}

\* re.search(r"No module named '([^']+)'", job_log)
NoModuleNamed(job_log) == IF "py_module" \in job_log THEN "pandas" ELSE None

\* re.search(r"Cannot find module '([^']+)'", job_log)
CannotFindModule(job_log) == IF "js_module" \in job_log THEN "express" ELSE None

\* re.search(r'cannot find package "([^"]+)"', job_log)
CannotFindPackage(job_log) ==
  IF "go_pkg" \in job_log THEN "github.com/gin-gonic/gin" ELSE None

\* re.search(r"Could not find '([^']+)'", job_log)
CouldNotFind(job_log) == IF "gem" \in job_log THEN "nokogiri" ELSE None

\* ----------------------------------------------------- language detection
Languages ==
  <<"python", "javascript", "java", "go", "ruby", "php", "rust", "csharp", "typescript">>

\* The signatures of language_patterns that one line of text matches,
\* as <<language, index in the language's pattern list>>.
TokenSignatures(t) ==
  CASE t = "py_module" -> {<<"python", 4>>}
    [] t = "js_module" -> {<<"rust", 5>>}
    [] t = "npm_err"   -> {<<"javascript", 2>>}
    [] t = "yarn"      -> {<<"javascript", 4>>}
    [] t = "go_pkg"    -> {<<"go", 0>>, <<"go", 7>>, <<"rust", 5>>}
    [] t = "gem"       -> {<<"ruby", 4>>}
    [] t = "pom"       -> {<<"java", 4>>}
    [] t = "go build"  -> {<<"go", 1>>}
    [] OTHER           -> {}

\* scores[lang]: the number of distinct patterns of lang found in
\* f"{job_name} {job_log}".
Score(lang, job_log, job_name) ==
  Cardinality({s \in UNION {TokenSignatures(t) : t \in job_log \cup {job_name}} :
                 s[1] = lang})

\* max(scores.items(), key=...) returns the first maximal item in the
\* insertion order of language_patterns.
FirstMaxLanguage(job_log, job_name) ==
  LET best == CHOOSE i \in 1..Len(Languages) :
                /\ \A j \in 1..Len(Languages) :
                     Score(Languages[j], job_log, job_name)
                       <= Score(Languages[i], job_log, job_name)
                /\ \A j \in 1..(i - 1) :
                     Score(Languages[j], job_log, job_name)
                       < Score(Languages[i], job_log, job_name)
  IN Languages[best]

detect_language(job_log, job_name) ==
  LET detected == FirstMaxLanguage(job_log, job_name)
  IN IF Score(detected, job_log, job_name) > 0 THEN detected ELSE "python"

\* ------------------------------------------------------ failure classifier
\* ai_analyzer.py 111: the categories the prompt asks the oracle to choose from.
PromptCategories ==
  { "dependency", "syntax_error", "test_failure", "timeout", "network",
    "security", "configuration", "build_error", "other" }

\* ai_analyzer.py 114: the actions the prompt asks the oracle to choose from.
PromptActions == {"retry", "manual_fix", "automatic_fix"}

RequiredFields ==
  { "error_category", "error_explanation", "suggested_solution",
    "recommended_action", "confidence", "language", "error_details" }

\* The texts are kept without the interpolated module name; confidence is
\* in hundredths; the values of error_details are written as strings.
get_fallback_analysis(job_log) ==
  LET language == detect_language(job_log, "")
  IN IF "py_module" \in job_log \/ "import_err" \in job_log
     THEN LET match == NoModuleNamed(job_log)
              module == IF match # None THEN match ELSE "unknown"
          IN [ error_category |-> "dependency",
               error_explanation |-> "Missing Python module",
               suggested_solution |-> "Add module to requirements.txt",
               recommended_action |-> "automatic_fix",
               confidence |-> 80,
               language |-> "python",
               error_details |-> DictVal(Put(EmptyDict, "missing_module", module)) ]
     ELSE IF "npm_err" \in job_log \/ "js_module" \in job_log
     THEN LET match == CannotFindModule(job_log)
              module == IF match # None THEN match ELSE "unknown"
          IN [ error_category |-> "dependency",
               error_explanation |-> "Missing Node.js module",
               suggested_solution |-> "Run npm install module",
               recommended_action |-> "automatic_fix",
               confidence |-> 80,
               language |-> "javascript",
               error_details |-> DictVal(Put(EmptyDict, "missing_module", module)) ]
     ELSE IF "timed_out" \in job_log
     THEN [ error_category |-> "timeout",
            error_explanation |-> "Job exceeded time limit",
            suggested_solution |-> "Increase job timeout in .gitlab-ci.yml",
            recommended_action |-> "automatic_fix",
            confidence |-> 70,
            language |-> language,
            error_details |-> DictVal(Put(EmptyDict, "current_timeout", "3600")) ]
     ELSE [ error_category |-> "other",
            error_explanation |-> "Build failed - manual review required",
            suggested_solution |-> "Check the full job log for details",
            recommended_action |-> "manual_fix",
            confidence |-> 30,
            language |-> language,
            error_details |-> DictVal(EmptyDict) ]

\* The keys _enhance_language_specific assigns into error_details, with
\* their values, for this result, language and log.
EnhanceWrites(result, language, job_log) ==
  IF result["error_category"] # "dependency" THEN EmptyDict
  ELSE IF language = "javascript"
  THEN IF "yarn" \in job_log
       THEN Put(Put(EmptyDict, "package_manager", "yarn"), "install_command", "yarn add")
       ELSE Put(Put(EmptyDict, "package_manager", "npm"), "install_command", "npm install")
  ELSE IF language = "java"
  THEN IF "pom" \in job_log
       THEN Put(Put(EmptyDict, "build_tool", "maven"), "config_file", "pom.xml")
       ELSE Put(Put(EmptyDict, "build_tool", "gradle"), "config_file", "build.gradle")
  ELSE IF language = "go"
  THEN IF CannotFindPackage(job_log) # None
       THEN Put(EmptyDict, "go_module", CannotFindPackage(job_log))
       ELSE EmptyDict
  ELSE IF language = "ruby"
  THEN IF CouldNotFind(job_log) # None
       THEN Put(EmptyDict, "gem_name", CouldNotFind(job_log))
       ELSE EmptyDict
  ELSE EmptyDict

\* error_details[key] = value raises TypeError when error_details is None
\* or is not a mapping.
EnhanceRaises(result, language, job_log) ==
  /\ result["error_details"].tag # "dict"
  /\ DOMAIN EnhanceWrites(result, language, job_log) # {}

enhance_language_specific(result, language, job_log) ==
  LET error_details == result["error_details"]
      writes == EnhanceWrites(result, language, job_log)
  IN IF error_details.tag = "dict"
     THEN Put(result, "error_details", DictVal(writes @@ error_details.map))
     ELSE result

\* The defaults of required_fields, applied to the keys absent from result.
Backfill(result, language) ==
  LET required_fields ==
        [ error_category |-> "other",
          error_explanation |-> "Error analysis failed",
          suggested_solution |-> "Manual review required",
          recommended_action |-> "manual_fix",
          confidence |-> 50,
          language |-> language,
          error_details |-> DictVal(EmptyDict) ]
  IN result @@ required_fields

\* The outcome of a block of code: a value, or an exception raised.
Returned(v) == [raised |-> FALSE, value |-> v]

Raised == [raised |-> TRUE, value |-> EmptyDict]

\* oracle is the outcome of self.model.generate_content(prompt):
\*   kind "raises"   the call raised (timeouts included)
\*   kind "no_json"  the text has no {...} span
\*   kind "bad_json" the {...} span is not valid JSON (json.loads raises)
\*   kind "json"     obj is the parsed object
\* TryBody is the body of the try statement of analyze_failure.
TryBody(job_log, job_name, oracle, language) ==
  IF oracle.kind \in {"raises", "bad_json"} THEN Raised
  ELSE IF oracle.kind = "no_json" THEN Returned(get_fallback_analysis(job_log))
  ELSE LET result == Backfill(Put(oracle.obj, "language", language), language)
       IN IF EnhanceRaises(result, language, job_log) THEN Raised
          ELSE Returned(enhance_language_specific(result, language, job_log))

\* analyze_failure without its except clause.
analyze_failure_Unguarded(model, job_log, job_name, oracle) ==
  IF ~model THEN Returned(get_fallback_analysis(job_log))
  ELSE TryBody(job_log, job_name, oracle, detect_language(job_log, job_name))

\* ai_analyzer.py 86-181
analyze_failure(model, job_log, job_name, oracle) ==
  IF ~model THEN Returned(get_fallback_analysis(job_log))
  ELSE LET language == detect_language(job_log, job_name)
           body == TryBody(job_log, job_name, oracle, language)
       IN IF body.raised
          THEN Returned(get_fallback_analysis(job_log))
          ELSE body

\* ------------------------------------------------ oracle responses modelled
OracleCategories == PromptCategories \cup {"transient", Missing, None}

OracleActions == PromptActions \cup {"ignore", Missing, None}

OracleDetails ==
  { MissingVal, NoneVal, OtherVal, DictVal(EmptyDict),
    DictVal(Put(EmptyDict, "missing_module", "requests")),
    DictVal(Put(EmptyDict, "package_manager", "pnpm")) }

OracleObject(c, a, d, e) ==
  LET withC == IF c = Missing THEN EmptyDict ELSE Put(EmptyDict, "error_category", c)
      withA == IF a = Missing THEN withC ELSE Put(withC, "recommended_action", a)
      withD == IF d.tag = "missing" THEN withA ELSE Put(withA, "error_details", d)
      withE == IF e = Missing THEN withD
               ELSE Put(Put(Put(withD, "error_explanation", e),
                            "suggested_solution", "Fix it"), "confidence", 90)
  IN withE

NoObject == EmptyDict

OracleResponses ==
  { [kind |-> k, obj |-> NoObject] : k \in {"raises", "no_json", "bad_json"} }
  \cup { [kind |-> "json", obj |-> OracleObject(c, a, d, e)] :
           c \in OracleCategories, a \in OracleActions,
           d \in OracleDetails, e \in {Missing, "Explanation"} }

\* ------------------------------------------------------------ fix generator
FixCategories ==
  {"dependency", "syntax_error", "timeout", "security", "configuration"}

RetryCategories == {"transient", "network", "timeout"}

\* re.search(r"package ([a-zA-Z0-9\.]+) does not exist", job_log): no line
\* of LogTokens matches it.
PackageDoesNotExist(job_log) == None

\* _fix_dependency_error: the module name it works with.
DependencyModule(error_details, job_log) ==
  LET module_name == Get(error_details, "missing_module", "")
      language == Get(error_details, "language", "python")
  IN IF Truthy(module_name) THEN module_name
     ELSE IF language = "python" THEN NoModuleNamed(job_log)
     ELSE IF language = "javascript" THEN CannotFindModule(job_log)
     ELSE IF language = "java" THEN PackageDoesNotExist(job_log)
     ELSE IF language = "go" THEN CannotFindPackage(job_log)
     ELSE IF language = "ruby" THEN CouldNotFind(job_log)
     ELSE module_name

\* The values of error_details that are numbers.
IsNumber(v) == v \in {"300", "3600", "60"}

\* suggest_fix: whether it raises, and the "success" of the dict it returns.
suggest_fix(error_type, error_details, job_log) ==
  IF error_type = "dependency"
  THEN Returned(Truthy(DependencyModule(error_details, job_log)))
  ELSE IF error_type = "syntax_error"
  THEN Returned(Truthy(Get(error_details, "error_code", "")))
  ELSE IF error_type = "timeout"
  THEN IF IsNumber(Get(error_details, "current_timeout", "300"))
       THEN Returned(TRUE)
       ELSE Raised    \* int(current_timeout * 1.5) on None or a string
  ELSE IF error_type = "security"
  THEN Returned(Truthy(Get(error_details, "vulnerable_package", "")))
  ELSE IF error_type = "configuration"
  THEN Returned(Truthy(Get(error_details, "missing_env_var", "")))
  ELSE Returned(FALSE)

\* _create_fix_commit builds a commit payload (and posts it) only for these
\* fix_data; for the others it returns False without any request.
\* fix_data is {'error_type': ..., 'language': ..., **error_details}.
HasCommitPayload(error_type, error_details) ==
  LET language == Get(error_details, "language", "python")
  IN \/ /\ error_type = "dependency"
        /\ language \in {"python", "javascript", "java", "go", "ruby"}
        /\ "missing_module" \in DOMAIN error_details
     \/ error_type = "timeout"
     \/ /\ error_type = "configuration"
        /\ "missing_env_var" \in DOMAIN error_details

\* ------------------------------------------------------------------ state
VARIABLES
  now,                  \* the last reading of datetime.now(), in minutes
  token,                \* bool(GITLAB_ACCESS_TOKEN)
  model,                \* ai_analyzer.model is not None
  processed_pipelines,  \* pipeline_id -> time of the last mark
  created_mrs,          \* mr_key -> sequence of [url, timestamp]
  dlv,                  \* delivery -> the locals of its gitlab_webhook call
  an_in,                \* the arguments of a direct analyze_failure call
  an_out                \* its outcome

vars ==
  << now, token, model, processed_pipelines, created_mrs, dlv, an_in, an_out >>

Deliveries == 1..NumDeliveries

Pipelines == {101, 102}

ProjectId == 7

Events == {"Pipeline Hook", "Push Hook"}

Statuses == {"failed", "running", "success"}

\* job.get("name") of the failed jobs get_pipeline_jobs may list.
FailedJobNames == {"build", "ai_guardian:report"}

JobLists == UNION {[1..n -> FailedJobNames] : n \in 0..MaxJobs}

\* The traces get_job_trace returns in deliveries ("" is the empty set).
TraceLogs == { {}, {"py_module"} }

\* The oracle outcomes drawn in deliveries.
DeliveryOracle ==
  { [kind |-> "raises", obj |-> NoObject],
    [kind |-> "json", obj |-> OracleObject("transient", "retry", DictVal(EmptyDict), "Explanation")],
    [kind |-> "json", obj |-> OracleObject("timeout", "retry", DictVal(EmptyDict), "Explanation")],
    [kind |-> "json", obj |-> OracleObject("syntax_error", "retry", DictVal(EmptyDict), "Explanation")],
    [kind |-> "json", obj |-> OracleObject("syntax_error", "automatic_fix", DictVal(EmptyDict), "Explanation")],
    [kind |-> "json", obj |-> OracleObject("security", "automatic_fix",
                                           DictVal(Put(EmptyDict, "vulnerable_package", "requests")),
                                           "Explanation")],
    [kind |-> "json", obj |-> OracleObject("security", "automatic_fix", NoneVal, "Explanation")],
    [kind |-> "json", obj |-> OracleObject("configuration", "automatic_fix",
                                DictVal(Put(EmptyDict, "missing_env_var", "API_KEY")), "Explanation")],
    [kind |-> "json", obj |-> OracleObject("timeout", "automatic_fix", DictVal(EmptyDict), "Explanation")],
    [kind |-> "json", obj |-> OracleObject("timeout", "automatic_fix",
                                DictVal(Put(EmptyDict, "current_timeout", None)), "Explanation")],
    [kind |-> "json", obj |-> OracleObject("failed_test", "automatic_fix", DictVal(EmptyDict), "Explanation")] }

\* The inputs of the specification of two concurrent deliveries.
RaceJobLists == { <<"build">> }

RaceLogs == { {"py_module"} }

RaceOracle ==
  { [kind |-> "raises", obj |-> NoObject],
    [kind |-> "json", obj |-> OracleObject("transient", "retry", DictVal(EmptyDict), "Explanation")] }

NoResponse == [status |-> "none", reason |-> "", message |-> "", jobs_analyzed |-> 0,
               jobs_retried |-> 0, comments_posted |-> 0, mrs_created |-> 0,
               analyses |-> <<>>]

\* str(e) of the exceptions the try block of gitlab_webhook can raise.
ItemAssignmentError == "'NoneType' object does not support item assignment"

OperandError == "unsupported operand type(s) for *: 'NoneType' and 'float'"

AnalyzerError == "analyze_failure raised"

\* str(e) of an exception raised by a request of create_fix_mr
RequestError == "Cannot connect to host"

\* How a request of create_fix_mr ends: the expected status, another
\* status, or an exception out of the client session.
RequestOutcomes == {"ok", "refused", "raised"}

\* mr_result before create_fix_mr has returned
NoMrResult == [success |-> FALSE, error |-> ""]

\* The locals of a call that has not started.
Idle ==
  [ pc |-> "idle", event |-> "", status |-> "", pipeline_id |-> 0,
    received_at |-> 0,     \* history: the reading of datetime.now() at main.py 763
    failed_jobs |-> <<>>, idx |-> 0, job_log |-> {}, analysis |-> EmptyDict,
    mr_created |-> FALSE, vertex_enhanced |-> FALSE,
    analyzed_count |-> 0, retry_count |-> 0, comment_count |-> 0, mr_count |-> 0,
    analyses |-> <<>>, response |-> NoResponse,
    fix_failed |-> {},     \* history: the keys whose create_fix_mr call failed
    listing_failed |-> FALSE,   \* history: the last get_pipeline_jobs request failed
    retried |-> <<>>,      \* history: the retry_job calls made, as job index and time
    mr_result |-> NoMrResult,
    fix_steps |-> <<>> ]   \* history: the requests create_fix_mr made for this job

\* The call returns response; its locals are gone.
Return(r, response) ==
  [Idle EXCEPT !.pc = "done", !.event = r.event, !.status = r.status,
               !.pipeline_id = r.pipeline_id, !.received_at = r.received_at,
               !.listing_failed = r.listing_failed, !.retried = r.retried,
               !.response = response]

InFlight(r) == r.pc \notin {"idle", "closed"}

\* ------------------------------------------- gitlab_webhook, between awaits
\* except Exception (main.py 1078-1085): {"status": "error", "message": str(e)}
Fail(r, message) ==
  Return(r, [NoResponse EXCEPT !.status = "error", !.message = message])

\* main.py 1027-1076: the summary returned after the loop.
Finish(r) ==
  Return(r, [ status |-> "analyzed", reason |-> "", message |-> "",
              jobs_analyzed |-> r.analyzed_count, jobs_retried |-> r.retry_count,
              comments_posted |-> r.comment_count, mrs_created |-> r.mr_count,
              analyses |-> r.analyses ])

\* job_name.startswith("ai_guardian:")
IsSystemJob(job_name) == job_name = "ai_guardian:report"

\* main.py 800-811: the loop from index i on, up to the next get_job_trace.
LoopFrom(r, i) ==
  LET rest == {j \in i..Len(r.failed_jobs) : ~IsSystemJob(r.failed_jobs[j])}
  IN IF rest = {} THEN Finish(r)
     ELSE LET j == CHOOSE j \in rest : \A k \in rest : j <= k
          IN [r EXCEPT !.pc = "get_trace", !.idx = j, !.job_log = {},
                       !.analysis = EmptyDict, !.mr_created = FALSE,
                       !.vertex_enhanced = FALSE,
                       !.mr_result = NoMrResult, !.fix_steps = <<>>]

\* A comment step that comments on every analysed job.
CommentStep_EveryJob(r, tok) ==
  IF tok
  THEN [r EXCEPT !.pc = "comment"]
  ELSE LoopFrom(r, r.idx + 1)

\* main.py 1002-1025: the commit comment, attempted while none is posted.
CommentStep(r, tok) ==
  IF tok /\ r.comment_count = 0
  THEN [r EXCEPT !.pc = "comment"]
  ELSE LoopFrom(r, r.idx + 1)

\* A retry condition that looks at the recommended action alone.
ShouldRetry_AnyCategory(analysis) == analysis["recommended_action"] = "retry"

\* main.py 940-941: the condition under which the job is retried.
ShouldRetry(analysis) ==
  /\ analysis["recommended_action"] = "retry"
  /\ analysis["error_category"] \in RetryCategories

\* main.py 928-950: record the analysis result, then retry the job.
\* Of analysis_result the flags are kept.
ActionStep(r, tok) ==
  LET analysis_result ==
        [ vertex_enhanced |-> r.vertex_enhanced,
          mr_created |-> r.mr_created,
          retry_success |-> FALSE ]
      r1 == [r EXCEPT !.analyses = Append(@, analysis_result)]
  IN IF ShouldRetry(r.analysis) /\ tok
     THEN [r1 EXCEPT !.pc = "retry_job"]
     ELSE CommentStep(r1, tok)

\* main.py 864: the key of created_mrs.
MrKey(analysis) ==
  << ProjectId, analysis["error_category"], analysis["error_details"].map >>

\* A lookup that never finds a recorded merge request.
HasRecentMr_Never(created, key, t) == FALSE

\* main.py 865-877: a merge request recorded for the key less than an
\* hour ago.
HasRecentMr(created, key, t) ==
  /\ key \in DOMAIN created
  /\ created[key] # <<>>
  /\ t - created[key][Len(created[key])].timestamp < MRWindow

\* main.py 846-861: the webhook's own extraction of the missing module,
\* returning the updated error_details.
ExtractModule(error_details, job_log) ==
  LET module_name == Get(error_details, "missing_module", None)
      language == Get(error_details, "language", "python")
  IN IF Truthy(module_name) THEN error_details
     ELSE IF language = "python" /\ "py_module" \in job_log
     THEN Put(error_details, "missing_module", NoModuleNamed(job_log))
     ELSE IF language = "javascript" /\ "js_module" \in job_log
     THEN Put(error_details, "missing_module", CannotFindModule(job_log))
     ELSE error_details

\* A decision that calls create_fix_mr whatever "success" suggest_fix
\* returned.
FixDecision_IgnoresSuccess(mr_created, analysis, job_log) ==
  IF mr_created /\ analysis["recommended_action"] = "automatic_fix"
  THEN IF suggest_fix(analysis["error_category"], analysis["error_details"].map,
                      job_log).raised
       THEN "raise" ELSE "create"
  ELSE "skip"

\* main.py 879-909: whether the delivery goes on to call create_fix_mr;
\* "raise" when suggest_fix raises.
FixDecision(mr_created, analysis, job_log) ==
  IF mr_created /\ analysis["recommended_action"] = "automatic_fix"
  THEN LET fix_suggestion ==
             suggest_fix(analysis["error_category"], analysis["error_details"].map, job_log)
       IN IF fix_suggestion.raised THEN "raise"
          ELSE IF fix_suggestion.value THEN "create" ELSE "skip"
  ELSE "skip"

\* main.py 836-909: from the analysis to the call of create_fix_mr.
Remediate(r, tok, created, t) ==
  IF r.analysis["error_category"] \in FixCategories
  THEN IF r.analysis["error_details"].tag # "dict"
       THEN Fail(r, ItemAssignmentError)   \* error_details['language'] = ...
       ELSE
         LET d0 == r.analysis["error_details"].map
             d1 == Put(d0, "language", Get(r.analysis, "language", "python"))
             d2 == IF r.analysis["error_category"] = "dependency"
                   THEN ExtractModule(d1, r.job_log) ELSE d1
             a2 == Put(r.analysis, "error_details", DictVal(d2))
             mr_key == MrKey(a2)
             recent == HasRecentMr(created, mr_key, t)
             a3 == IF recent
                   THEN Put(Put(a2, "mr_url", created[mr_key][Len(created[mr_key])].url),
                            "mr_exists", TRUE)
                   ELSE a2
             r3 == [r EXCEPT !.analysis = a3, !.mr_created = ~recent]
             decision == FixDecision(r3.mr_created, a3, r.job_log)
         IN IF decision = "raise" THEN Fail(r3, OperandError)
            ELSE IF decision = "create" THEN [r3 EXCEPT !.pc = "create_branch"]
            ELSE ActionStep(r3, tok)
  ELSE ActionStep(r, tok)

\* main.py 812-835: the job's trace has arrived.
AnalyzeStep(r, tok, mdl, created, t, job_log, oracle) ==
  IF job_log = {} THEN LoopFrom(r, r.idx + 1)
  ELSE LET analysis == analyze_failure(mdl, job_log, r.failed_jobs[r.idx], oracle)
       IN IF analysis.raised THEN Fail(r, AnalyzerError)
          ELSE Remediate([r EXCEPT !.job_log = job_log, !.analysis = analysis.value,
                                   !.analyzed_count = @ + 1],
                         tok, created, t)

\* A failure branch that counts the merge request all the same.
FixFailed_Counting(r, tok) ==
  ActionStep([r EXCEPT !.mr_created = FALSE, !.mr_count = @ + 1], tok)

\* main.py 924-926: create_fix_mr reported failure.
FixFailed(r, tok) == ActionStep([r EXCEPT !.mr_created = FALSE], tok)

\* main.py 911-923: create_fix_mr succeeded with merge request url.
FixCreated(r, tok, url) ==
  ActionStep([r EXCEPT !.mr_created = TRUE, !.mr_count = @ + 1,
                       !.mr_result = [success |-> TRUE, error |-> ""],
                       !.analysis = Put(Put(@, "mr_url", url), "mr_created", TRUE),
                       !.vertex_enhanced = TRUE],
             tok)

\* main.py 916-919: created_mrs[mr_key].append({'url': ..., 'timestamp': ...})
RecordMr(created, mr_key, url, t) ==
  Put(created, mr_key, Append(Get(created, mr_key, <<>>), [url |-> url, timestamp |-> t]))

\* A check that never finds a pipeline recently processed.
RecentlyProcessed_Never(processed, pipeline_id, t) == FALSE

\* A check of the reprocessing window that also skips a delivery arriving
\* exactly ten minutes after the mark.
RecentlyProcessed_Inclusive(processed, pipeline_id, t) ==
  t - processed[pipeline_id] <= PipelineWindow

\* main.py 762-763: the check of the reprocessing window.
RecentlyProcessed(processed, pipeline_id, t) ==
  t - processed[pipeline_id] < PipelineWindow

\* A handler that passes the check and leaves the mark unwritten.
MarkProcessed_Forgotten(processed, pipeline_id, t) == processed

\* main.py 769: processed_pipelines[pipeline_id] = datetime.now()
MarkProcessed(processed, pipeline_id, t) == [processed EXCEPT ![pipeline_id] = t]

\* --------------------------------------------------------------- actions
NoCall ==
  [model |-> FALSE, job_log |-> {}, job_name |-> "", oracle |-> [kind |-> "none", obj |-> NoObject]]

Init ==
  /\ now = 0
  /\ token \in BOOLEAN
  /\ model \in BOOLEAN
  /\ processed_pipelines = [p \in Pipelines |-> DatetimeMin]
  /\ created_mrs = EmptyDict
  /\ dlv = [d \in Deliveries |-> Idle]
  /\ an_in = NoCall
  /\ an_out = [done |-> FALSE, outcome |-> Raised]

\* The readings datetime.now() can give after the reading t0.
Readings(t0) == {t \in t0..MaxNow : (t - t0) % TickMinutes = 0}

\* main.py 671-775: a delivery arrives and runs up to asyncio.sleep(5).
\* The prediction branch of a running pipeline (676-748) touches none of the
\* state kept here; it answers "predicted" or falls through to the skip.
Receive(d) ==
  /\ dlv[d].pc = "idle"
  /\ \E event \in Events :
       IF event # "Pipeline Hook"
       THEN /\ dlv' = [dlv EXCEPT ![d] =
                         Return([dlv[d] EXCEPT !.event = event],
                                [NoResponse EXCEPT !.status = "received"])]
            /\ UNCHANGED << now, processed_pipelines >>
       ELSE \E status \in Statuses :
         IF status # "failed"
         THEN /\ \E answer \in (IF status = "running" THEN {"predicted", "skipped"} ELSE {"skipped"}) :
                   dlv' = [dlv EXCEPT ![d] =
                             Return([dlv[d] EXCEPT !.event = event, !.status = status],
                                    [NoResponse EXCEPT !.status = answer,
                                                       !.reason = "pipeline_status"])]
              /\ UNCHANGED << now, processed_pipelines >>
         ELSE \E pipeline_id \in Pipelines, t \in Readings(now) :
           LET r == [dlv[d] EXCEPT !.event = event, !.status = status,
                                   !.pipeline_id = pipeline_id, !.received_at = t]
           IN /\ now' = t
              /\ IF RecentlyProcessed(processed_pipelines, pipeline_id, t)
                 THEN /\ dlv' = [dlv EXCEPT ![d] =
                                   Return(r, [NoResponse EXCEPT !.status = "skipped",
                                                                !.reason = "recently_processed"])]
                      /\ UNCHANGED processed_pipelines
                 ELSE /\ processed_pipelines' = MarkProcessed(processed_pipelines, pipeline_id, t)
                      /\ dlv' = [dlv EXCEPT ![d] = [r EXCEPT !.pc = "sleep5"]]
  /\ UNCHANGED << token, model, created_mrs, an_in, an_out >>

\* The response has been sent.
Respond(d) ==
  /\ dlv[d].pc = "done"
  /\ dlv' = [dlv EXCEPT ![d] = [Idle EXCEPT !.pc = "closed"]]
  /\ UNCHANGED << now, token, model, processed_pipelines, created_mrs, an_in, an_out >>

\* main.py 775-780: asyncio.sleep(5) is over; get_pipeline_jobs is called.
ResumeSleep5(d) ==
  /\ dlv[d].pc = "sleep5"
  /\ dlv' = [dlv EXCEPT ![d].pc = "get_jobs"]
  /\ UNCHANGED << now, token, model, processed_pipelines, created_mrs, an_in, an_out >>

\* main.py 780-789: the job list has arrived (get_pipeline_jobs answers []
\* when its request fails); failed_jobs is the failed part of it.
GetJobsFrom(d, lists) ==
  /\ dlv[d].pc = "get_jobs"
  /\ \E failed_jobs \in lists :
       dlv' = [dlv EXCEPT ![d] =
                 IF failed_jobs = <<>>
                 THEN [dlv[d] EXCEPT !.pc = "sleep3"]
                 ELSE LoopFrom([dlv[d] EXCEPT !.failed_jobs = failed_jobs], 1)]
  /\ UNCHANGED << now, token, model, processed_pipelines, created_mrs, an_in, an_out >>

ResumeGetJobs(d) == GetJobsFrom(d, JobLists)

\* main.py 789-790
ResumeSleep3(d) ==
  /\ dlv[d].pc = "sleep3"
  /\ dlv' = [dlv EXCEPT ![d].pc = "get_jobs2"]
  /\ UNCHANGED << now, token, model, processed_pipelines, created_mrs, an_in, an_out >>

\* main.py 790-811: the second job list has arrived.
ResumeGetJobs2(d) ==
  /\ dlv[d].pc = "get_jobs2"
  /\ \E failed_jobs \in JobLists :
       dlv' = [dlv EXCEPT ![d] = LoopFrom([dlv[d] EXCEPT !.failed_jobs = failed_jobs,
                                                         !.listing_failed = FALSE], 1)]
  /\ UNCHANGED << now, token, model, processed_pipelines, created_mrs, an_in, an_out >>

\* gitlab_client.py 203-221 and main.py 780-798: the request of
\* get_pipeline_jobs fails (a status other than 200, or an exception), so
\* the call answers [] and failed_jobs is empty.
ListingFails(d) ==
  /\ dlv[d].pc \in {"get_jobs", "get_jobs2"}
  /\ dlv' = [dlv EXCEPT ![d] =
               IF dlv[d].pc = "get_jobs"
               THEN [dlv[d] EXCEPT !.pc = "sleep3", !.listing_failed = TRUE]
               ELSE LoopFrom([dlv[d] EXCEPT !.failed_jobs = <<>>,
                                            !.listing_failed = TRUE], 1)]
  /\ UNCHANGED << now, token, model, processed_pipelines, created_mrs, an_in, an_out >>

\* main.py 811-909: the trace has arrived; the job is analysed and the
\* delivery runs to its next request.
GetTraceFrom(d, logs, oracles) ==
  /\ dlv[d].pc = "get_trace"
  /\ \E job_log \in logs, oracle \in oracles, t \in Readings(now) :
       LET r == AnalyzeStep(dlv[d], token, model, created_mrs, t, job_log, oracle)
       IN /\ dlv' = [dlv EXCEPT ![d] =
                       IF r.pc = "retry_job"
                       THEN [r EXCEPT !.retried = Append(@, [job |-> r.idx, at |-> t])]
                       ELSE r]
          /\ now' = t
  /\ UNCHANGED << token, model, processed_pipelines, created_mrs, an_in, an_out >>

ResumeGetTrace(d) == GetTraceFrom(d, TraceLogs, DeliveryOracle)

\* The request for step has ended with outcome.
Requested(r, step, outcome) ==
  [r EXCEPT !.fix_steps = Append(@, [step |-> step, outcome |-> outcome])]

\* An error report that blames the merge request step whatever failed.
StepError_AlwaysMr(step, outcome) == "mr_creation_failed"

\* vertex_ai_fixer.py 372, 382, 404, 406-411: the error create_fix_mr
\* reports when the request for a step does not succeed.
StepError(step, outcome) ==
  IF outcome = "raised" THEN RequestError
  ELSE IF step = "branch" THEN "branch_creation_failed"
  ELSE IF step = "commit" THEN "commit_failed"
  ELSE "mr_creation_failed"

\* create_fix_mr returns failure to main.py 911: nothing is recorded.
FixReturnsFailure(d, r, error) ==
  /\ dlv' = [dlv EXCEPT ![d] =
               FixFailed([r EXCEPT !.fix_failed = @ \cup {MrKey(r.analysis)},
                                   !.mr_result = [success |-> FALSE, error |-> error]],
                         token)]
  /\ UNCHANGED << now, token, model, processed_pipelines, created_mrs, an_in, an_out >>

\* vertex_ai_fixer.py 369-382: the branch request has answered; without
\* a commit payload _create_fix_commit returns False at once.
ResumeCreateBranch(d) ==
  /\ dlv[d].pc = "create_branch"
  /\ \E outcome \in RequestOutcomes :
       LET r == Requested(dlv[d], "branch", outcome)
       IN IF outcome # "ok" THEN FixReturnsFailure(d, r, StepError("branch", outcome))
          ELSE IF HasCommitPayload(dlv[d].analysis["error_category"],
                                   dlv[d].analysis["error_details"].map)
          THEN /\ dlv' = [dlv EXCEPT ![d] = [r EXCEPT !.pc = "create_commit"]]
               /\ UNCHANGED << now, token, model, processed_pipelines, created_mrs,
                               an_in, an_out >>
          ELSE FixReturnsFailure(d, r, "commit_failed")

\* vertex_ai_fixer.py 598-604, 379-393: the commit request has answered
\* (for python it follows the read of requirements.txt, 422-426).
ResumeCreateCommit(d) ==
  /\ dlv[d].pc = "create_commit"
  /\ \E outcome \in RequestOutcomes :
       LET r == Requested(dlv[d], "commit", outcome)
       IN IF outcome = "ok"
          THEN /\ dlv' = [dlv EXCEPT ![d] = [r EXCEPT !.pc = "create_mr"]]
               /\ UNCHANGED << now, token, model, processed_pipelines, created_mrs,
                               an_in, an_out >>
          ELSE FixReturnsFailure(d, r, StepError("commit", outcome))

\* vertex_ai_fixer.py 393-405 and main.py 911-926: the merge request
\* request has answered.
ResumeCreateMr(d) ==
  /\ dlv[d].pc = "create_mr"
  /\ \E outcome \in RequestOutcomes :
       LET r == Requested(dlv[d], "mr", outcome)
       IN IF outcome = "ok"
          THEN \E t \in Readings(now) :
                 LET mr_key == MrKey(r.analysis)
                     url == << d, r.idx >>
                 IN /\ created_mrs' = RecordMr(created_mrs, mr_key, url, t)
                    /\ now' = t
                    /\ dlv' = [dlv EXCEPT ![d] = FixCreated(r, token, url)]
                    /\ UNCHANGED << token, model, processed_pipelines, an_in, an_out >>
          ELSE FixReturnsFailure(d, r, StepError("mr", outcome))

\* main.py 944-950: retry_job has answered.
ResumeRetryJob(d) ==
  /\ dlv[d].pc = "retry_job"
  /\ \E success \in BOOLEAN :
       LET r == dlv[d]
           r1 == IF success
                 THEN [r EXCEPT !.retry_count = @ + 1,
                                !.analyses[Len(r.analyses)].retry_success = TRUE]
                 ELSE r
       IN dlv' = [dlv EXCEPT ![d] = CommentStep(r1, token)]
  /\ UNCHANGED << now, token, model, processed_pipelines, created_mrs, an_in, an_out >>

\* main.py 1004-1025: the requests of the comment have answered
\* (get_pipeline_details when the payload names no commit, then
\* create_commit_comment); posted is whether a comment was created.
ResumeComment(d) ==
  /\ dlv[d].pc = "comment"
  /\ \E posted \in BOOLEAN :
       LET r1 == IF posted THEN [dlv[d] EXCEPT !.comment_count = @ + 1] ELSE dlv[d]
       IN dlv' = [dlv EXCEPT ![d] = LoopFrom(r1, r1.idx + 1)]
  /\ UNCHANGED << now, token, model, processed_pipelines, created_mrs, an_in, an_out >>

\* The deliveries the host has accepted and not yet answered.
NumInFlight == Cardinality({d \in Deliveries : InFlight(dlv[d])})

\* Deliveries handled one after the other.
ReceiveNext(d) == NumInFlight < MaxInFlight /\ Receive(d)

Next ==
  \/ \E d \in Deliveries : ReceiveNext(d)
  \/ \E d \in Deliveries : Respond(d)
  \/ \E d \in Deliveries : ResumeSleep5(d)
  \/ \E d \in Deliveries : ResumeGetJobs(d)
  \/ \E d \in Deliveries : ResumeSleep3(d)
  \/ \E d \in Deliveries : ResumeGetJobs2(d)
  \/ \E d \in Deliveries : ListingFails(d)
  \/ \E d \in Deliveries : ResumeGetTrace(d)
  \/ \E d \in Deliveries : ResumeCreateBranch(d)
  \/ \E d \in Deliveries : ResumeCreateCommit(d)
  \/ \E d \in Deliveries : ResumeCreateMr(d)
  \/ \E d \in Deliveries : ResumeRetryJob(d)
  \/ \E d \in Deliveries : ResumeComment(d)

Spec == Init /\ [][Next]_vars

\* ------------------------------------ two deliveries in flight at once
RaceGetJobs(d) == GetJobsFrom(d, RaceJobLists)

RaceGetTrace(d) == GetTraceFrom(d, RaceLogs, RaceOracle)

NextRace ==
  \/ \E d \in Deliveries : Receive(d)
  \/ \E d \in Deliveries : Respond(d)
  \/ \E d \in Deliveries : ResumeSleep5(d)
  \/ \E d \in Deliveries : RaceGetJobs(d)
  \/ \E d \in Deliveries : RaceGetTrace(d)
  \/ \E d \in Deliveries : ResumeCreateBranch(d)
  \/ \E d \in Deliveries : ResumeCreateCommit(d)
  \/ \E d \in Deliveries : ResumeCreateMr(d)
  \/ \E d \in Deliveries : ResumeRetryJob(d)
  \/ \E d \in Deliveries : ResumeComment(d)

SpecRace == Init /\ [][NextRace]_vars

\* ----------------- two deliveries in flight at once, two failed jobs each
RetryJobLists == { <<"build", "build">> }

RetryGetJobs(d) == GetJobsFrom(d, RetryJobLists)

NextRetry ==
  \/ \E d \in Deliveries : Receive(d)
  \/ \E d \in Deliveries : Respond(d)
  \/ \E d \in Deliveries : ResumeSleep5(d)
  \/ \E d \in Deliveries : RetryGetJobs(d)
  \/ \E d \in Deliveries : RaceGetTrace(d)
  \/ \E d \in Deliveries : ResumeCreateBranch(d)
  \/ \E d \in Deliveries : ResumeCreateCommit(d)
  \/ \E d \in Deliveries : ResumeCreateMr(d)
  \/ \E d \in Deliveries : ResumeRetryJob(d)
  \/ \E d \in Deliveries : ResumeComment(d)

SpecRetry == Init /\ [][NextRetry]_vars

\* ------------------------------ an oracle call that never completes
\* ai_analyzer.py 144: self.model.generate_content(prompt) is a plain call,
\* not an await, and no timeout is set on it: while it has not returned,
\* the thread of the event loop is inside it and no coroutine is resumed.
LoopBlocked == \E d \in Deliveries : dlv[d].pc = "generate_content"

\* main.py 811-818 and ai_analyzer.py 86-144: the trace has arrived and
\* analyze_failure has called the oracle, which does not answer.
OracleHangs(d) ==
  /\ dlv[d].pc = "get_trace"
  /\ model
  /\ \E job_log \in RaceLogs :
       dlv' = [dlv EXCEPT ![d].pc = "generate_content", ![d].job_log = job_log]
  /\ UNCHANGED << now, token, model, processed_pipelines, created_mrs, an_in, an_out >>

NextHang ==
  \/ \E d \in Deliveries : ~LoopBlocked /\ Receive(d)
  \/ \E d \in Deliveries : ~LoopBlocked /\ Respond(d)
  \/ \E d \in Deliveries : ~LoopBlocked /\ ResumeSleep5(d)
  \/ \E d \in Deliveries : ~LoopBlocked /\ RaceGetJobs(d)
  \/ \E d \in Deliveries : ~LoopBlocked /\ RaceGetTrace(d)
  \/ \E d \in Deliveries : ~LoopBlocked /\ OracleHangs(d)
  \/ \E d \in Deliveries : ~LoopBlocked /\ ResumeCreateBranch(d)
  \/ \E d \in Deliveries : ~LoopBlocked /\ ResumeCreateCommit(d)
  \/ \E d \in Deliveries : ~LoopBlocked /\ ResumeCreateMr(d)
  \/ \E d \in Deliveries : ~LoopBlocked /\ ResumeRetryJob(d)
  \/ \E d \in Deliveries : ~LoopBlocked /\ ResumeComment(d)

\* The event loop resumes a coroutine whose await has completed, and every
\* request to GitLab is answered.
SpecHang == Init /\ [][NextHang]_vars /\ WF_vars(NextHang)

\* ------------------------------------------ analyze_failure called directly
\* The calls whose answer is the fallback take every log; the calls whose
\* answer is the oracle's object read the log only through detect_language,
\* so they take the logs of at most one line.
AnalyzerInputs ==
  { [model |-> FALSE, job_log |-> l, job_name |-> n, oracle |-> NoCall.oracle] :
      l \in Logs \ {{}}, n \in JobNames }
  \cup { [model |-> TRUE, job_log |-> l, job_name |-> n, oracle |-> o] :
           l \in Logs \ {{}}, n \in JobNames,
           o \in {r \in OracleResponses : r.kind # "json"} }
  \cup { [model |-> TRUE, job_log |-> l, job_name |-> n, oracle |-> o] :
           l \in {k \in Logs : Cardinality(k) = 1}, n \in {"build", "go build"},
           o \in {r \in OracleResponses : r.kind = "json"} }

InitAnalyze ==
  /\ now = 0
  /\ token = FALSE
  /\ model = FALSE
  /\ processed_pipelines = [p \in Pipelines |-> DatetimeMin]
  /\ created_mrs = EmptyDict
  /\ dlv = [d \in Deliveries |-> Idle]
  /\ an_in \in AnalyzerInputs
  /\ an_out = [done |-> FALSE, outcome |-> Raised]

CallAnalyze ==
  /\ ~an_out.done
  /\ an_out' = [done |-> TRUE,
                outcome |-> analyze_failure(an_in.model, an_in.job_log, an_in.job_name,
                                            an_in.oracle)]
  /\ UNCHANGED << now, token, model, processed_pipelines, created_mrs, dlv, an_in >>

NextAnalyze == CallAnalyze

SpecAnalyze == InitAnalyze /\ [][NextAnalyze]_vars

\* ------------------------------------- _fix_timeout_error called directly
\* vertex_ai_fixer.py 266-286 for a non-negative integer current_timeout:
\* current_timeout * 1.5 is exact in floating point for these values and
\* int() drops its fractional part.
fix_timeout_error(current_timeout) ==
  [ success |-> TRUE,
    current_timeout |-> current_timeout,
    new_timeout |-> (current_timeout * 3) \div 2 ]

InitTimeout ==
  /\ now = 0
  /\ token = FALSE
  /\ model = FALSE
  /\ processed_pipelines = [p \in Pipelines |-> DatetimeMin]
  /\ created_mrs = EmptyDict
  /\ dlv = [d \in Deliveries |-> Idle]
  /\ an_in \in { [current_timeout |-> t] : t \in 0..MaxTimeout }
  /\ an_out = [done |-> FALSE, outcome |-> Raised]

CallFixTimeout ==
  /\ ~an_out.done
  /\ an_out' = [done |-> TRUE, outcome |-> Returned(fix_timeout_error(an_in.current_timeout))]
  /\ UNCHANGED << now, token, model, processed_pipelines, created_mrs, dlv, an_in >>

NextTimeout == CallFixTimeout

SpecTimeout == InitTimeout /\ [][NextTimeout]_vars

\* ----------------------------------- predict_failure_risk called directly
\* ai_predictor.py 101-231.  Risk values are floats in the code; here a
\* risk value is an integer count of 1/Unit, a scale on which every
\* product and quotient the function forms from the inputs below is exact.
\* The inputs are the hour and weekday datetime.now() yields (112-114),
\* recent_commits, and historical_data as analyze_failure_patterns (57-99)
\* builds it from total_pipelines pipelines of which failed_count failed,
\* hour_failures of them created in the current hour.
Unit == 3000

Thousandths(k) == (k * Unit) \div 1000

RISK_THRESHOLDS ==
  [ low |-> Thousandths(300), medium |-> Thousandths(500),
    high |-> Thousandths(700), critical |-> Thousandths(850) ]

\* base (in hundredths) times risk_multiplier (in tenths)
Weighted(base, risk_multiplier) == Thousandths(base * risk_multiplier)

Factor(name, contribution, mitigation) ==
  [factor |-> name, contribution |-> contribution, mitigation |-> mitigation]

\* 118-127
LateNight(hour) ==
  IF hour \in 0..5
    THEN << Factor("late_night_deployment", Weighted(30, 18),
                   "Consider postponing to business hours") >>
    ELSE << >>

\* variant of FridayDeploy: the base risk without its risk_multiplier
FridayDeploy_Unweighted(hour, weekday) ==
  IF weekday = 4 /\ hour >= 15
    THEN << Factor("friday_deployment", Thousandths(250),
                   "Deploy on Monday morning instead") >>
    ELSE << >>

\* 129-139
FridayDeploy(hour, weekday) ==
  IF weekday = 4 /\ hour >= 15
    THEN << Factor("friday_deployment", Weighted(25, 15),
                   "Deploy on Monday morning instead") >>
    ELSE << >>

\* 141-151
MondayMorning(hour, weekday) ==
  IF weekday = 0 /\ hour \in {7, 8, 9}
    THEN << Factor("monday_morning_surge", Weighted(20, 14),
                   "Wait 1-2 hours for load to stabilize") >>
    ELSE << >>

\* 153-162
RapidCommits(recent_commits) ==
  IF recent_commits > 10
    THEN << Factor("rapid_commits", Weighted(30, 16),
                   "Review changes carefully, consider staged deployment") >>
    ELSE << >>

\* 164-175: failure_rate = failed_count / total_pipelines (line 72), absent
\* from patterns (so 0) when no pipeline was analysed; the factor applies
\* when it exceeds 0.3 and contributes half of it.
HistoricalRate(h) ==
  IF h.total_pipelines > 0 /\ 10 * h.failed_count > 3 * h.total_pipelines
    THEN << Factor("high_historical_failure_rate",
                   (h.failed_count * Unit) \div (2 * h.total_pipelines),
                   "Implement additional testing stages") >>
    ELSE << >>

\* 177-190: str(hour) is a key of failure_by_hour when at least one failed
\* pipeline was created in that hour; the rate is taken over total_analyzed
\* and the factor applies when it exceeds 0.2, contributing 0.3 of it.
FailureHour(h) ==
  IF h.hour_failures > 0 /\ 5 * h.hour_failures > h.total_pipelines
    THEN << Factor("high_failure_hour",
                   (3 * h.hour_failures * Unit) \div (10 * h.total_pipelines),
                   "Schedule pipeline for different time") >>
    ELSE << >>

RECURSIVE TotalRisk(_)
TotalRisk(risk_factors) ==
  IF risk_factors = << >> THEN 0
  ELSE Head(risk_factors).contribution + TotalRisk(Tail(risk_factors))

\* variant of RiskLevel: a threshold counts only when strictly exceeded
RiskLevel_Strict(risk_score) ==
  IF risk_score > RISK_THRESHOLDS.critical THEN "critical"
  ELSE IF risk_score > RISK_THRESHOLDS.high THEN "high"
  ELSE IF risk_score > RISK_THRESHOLDS.medium THEN "medium"
  ELSE "low"

\* 195-200: the thresholds are tried from the highest down
RiskLevel(risk_score) ==
  IF risk_score >= RISK_THRESHOLDS.critical THEN "critical"
  ELSE IF risk_score >= RISK_THRESHOLDS.high THEN "high"
  ELSE IF risk_score >= RISK_THRESHOLDS.medium THEN "medium"
  ELSE "low"

\* variant of PrimaryRisk: the factor found first, whatever it contributes
PrimaryRisk_Leading(risk_factors) == risk_factors[1]

\* 208: max(risk_factors, key=contribution) is the first factor of the list
\* with the greatest contribution
PrimaryRisk(risk_factors) ==
  LET best == CHOOSE i \in 1..Len(risk_factors) :
                /\ \A j \in 1..Len(risk_factors) :
                     risk_factors[j].contribution <= risk_factors[i].contribution
                /\ \A j \in 1..(i - 1) :
                     risk_factors[j].contribution < risk_factors[i].contribution
  IN risk_factors[best]

\* 202-221: none of the six factor names contains "timeout" or "duration"
LikelyFailure(risk_factors) ==
  IF risk_factors = << >>
    THEN [likely_failure |-> "unknown", prevention |-> "Monitor pipeline closely"]
  ELSE LET primary_risk == PrimaryRisk(risk_factors)
       IN IF primary_risk.factor = "rapid_commits"
            THEN [likely_failure |-> "syntax_error",
                  prevention |-> "Run local tests before pushing"]
          ELSE IF primary_risk.factor = "monday_morning_surge"
            THEN [likely_failure |-> "resource_exhaustion",
                  prevention |-> "Increase runner resources or wait"]
          ELSE [likely_failure |-> "general_failure",
                prevention |-> primary_risk.mitigation]

\* variant of Round3: the thousandths below, not the nearest
Round3_Truncated(risk_score) ==
  LET step == Unit \div 1000
  IN step * (risk_score \div step)

\* 224: round(risk_score, 3), to the nearest thousandth
Round3(risk_score) ==
  LET step == Unit \div 1000
  IN step * ((2 * risk_score + step) \div (2 * step))

Min(a, b) == IF a <= b THEN a ELSE b

predict_failure_risk(hour, weekday, historical_data, recent_commits) ==
  LET risk_factors == LateNight(hour) \o FridayDeploy(hour, weekday)
                        \o MondayMorning(hour, weekday)
                        \o RapidCommits(recent_commits)
                        \o HistoricalRate(historical_data)
                        \o FailureHour(historical_data)
      risk_score == Min(TotalRisk(risk_factors), Unit)
      likely == LikelyFailure(risk_factors)
  IN [ risk_score |-> Round3(risk_score),
       risk_level |-> RiskLevel(risk_score),
       likely_failure |-> likely.likely_failure,
       prevention |-> likely.prevention,
       risk_factors |-> risk_factors ]

MaxHistory == 4
CommitCounts == {0, 10, 11}

HistoricalData ==
  { [total_pipelines |-> n, failed_count |-> a, hour_failures |-> hf] :
      n \in 0..MaxHistory, a \in 0..MaxHistory, hf \in 0..MaxHistory }

PredictorInputs ==
  { [hour |-> h, weekday |-> w, recent_commits |-> c, historical_data |-> hd] :
      h \in 0..23, w \in 0..6, c \in CommitCounts,
      hd \in { x \in HistoricalData :
                 x.failed_count <= x.total_pipelines /\ x.hour_failures <= x.failed_count } }

InitPredict ==
  /\ now = 0
  /\ token = FALSE
  /\ model = FALSE
  /\ processed_pipelines = [p \in Pipelines |-> DatetimeMin]
  /\ created_mrs = EmptyDict
  /\ dlv = [d \in Deliveries |-> Idle]
  /\ an_in \in PredictorInputs
  /\ an_out = [done |-> FALSE, outcome |-> Raised]

CallPredict ==
  /\ ~an_out.done
  /\ an_out' = [done |-> TRUE,
                outcome |-> Returned(predict_failure_risk(an_in.hour, an_in.weekday,
                                       an_in.historical_data, an_in.recent_commits))]
  /\ UNCHANGED << now, token, model, processed_pipelines, created_mrs, dlv, an_in >>

NextPredict == CallPredict

SpecPredict == InitPredict /\ [][NextPredict]_vars

\* --------------------------------- _fix_dependency_error called directly
\* vertex_ai_fixer.py 60-212.  A formatted string is the sequence of its
\* literal parts and interpolated values; a suggestion is the file it names
\* (or manual) and the fields given for it; confidence is in hundredths.
Fix(file, fields, confidence, explanation) ==
  [ success |-> TRUE, fix_type |-> "dependency",
    suggestion |-> [file |-> file, fields |-> fields],
    confidence |-> confidence, explanation |-> explanation, reason |-> << >> ]

\* 209-212
NoFix(language) ==
  [ success |-> FALSE, fix_type |-> "", suggestion |-> [file |-> "", fields |-> EmptyDict],
    confidence |-> 0, explanation |-> << >>,
    reason |-> << "Could not identify missing module for ", language >> ]

\* 92-99: package_map.get(module_name, module_name)
PackageName(module_name) ==
  CASE module_name = "cv2" -> "opencv-python"
    [] module_name = "sklearn" -> "scikit-learn"
    [] module_name = "PIL" -> "Pillow"
    [] module_name = "yaml" -> "PyYAML"
    [] module_name = "dotenv" -> "python-dotenv"
    [] OTHER -> module_name

\* module_name.split('.')[0] and [-1], for the module names of FixModules
GroupId(module_name) ==
  IF module_name = "org.springframework.boot" THEN "org" ELSE module_name

ArtifactId(module_name) ==
  IF module_name = "org.springframework.boot" THEN "boot" ELSE module_name

\* variant of GenericFix: a language without a handler is refused
GenericFix_Refused(module_name, language) == NoFix(language)

\* 196-207: the else branch, for a language without a handler of its own
GenericFix(module_name, language) ==
  Fix("manual",
      Put(EmptyDict, "instruction",
          << "Add ", module_name, " to your ", language, " dependency file" >>),
      70,
      << "Vertex AI detected missing ", language, " dependency '", module_name,
         "'. Please add it to your project's dependency file." >>)

fix_dependency_error(error_details, job_log) ==
  LET module_name == DependencyModule(error_details, job_log)
      language == Get(error_details, "language", "python")
  IN IF ~Truthy(module_name) THEN NoFix(language)
     ELSE IF language = "python"
       THEN Fix("requirements.txt",
                Put(Put(EmptyDict, "action", << "append" >>),
                    "content", << "\n", PackageName(module_name) >>),
                95,
                << "Vertex AI detected missing Python module '", module_name,
                   "'. Adding '", PackageName(module_name),
                   "' to requirements.txt will resolve this error." >>)
     ELSE IF language = "javascript"
       THEN LET package_manager == Get(error_details, "package_manager", "npm")
            IN Fix("package.json",
                   Put(Put(Put(EmptyDict, "action", << "update_dependencies" >>),
                           "module", << module_name >>),
                       "package_manager", << package_manager >>),
                   90,
                   << "Vertex AI detected missing Node.js module '", module_name,
                      "'. Running '", package_manager, " install ", module_name,
                      "' will resolve this error." >>)
     ELSE IF language = "java"
       THEN IF Get(error_details, "build_tool", "maven") = "maven"
              THEN Fix("pom.xml",
                       Put(Put(Put(EmptyDict, "action", << "add_dependency" >>),
                               "groupId", << GroupId(module_name) >>),
                           "artifactId", << ArtifactId(module_name) >>),
                       85,
                       << "Vertex AI detected missing Java package '", module_name,
                          "'. Adding dependency to pom.xml will resolve this error." >>)
              ELSE Fix("build.gradle",
                       Put(Put(EmptyDict, "action", << "add_dependency" >>),
                           "dependency", << module_name >>),
                       85,
                       << "Vertex AI detected missing Java package '", module_name,
                          "'. Adding dependency to build.gradle will resolve this error." >>)
     ELSE IF language = "go"
       THEN Fix("go.mod",
                Put(Put(EmptyDict, "action", << "go_get" >>), "module", << module_name >>),
                90,
                << "Vertex AI detected missing Go module '", module_name,
                   "'. Running 'go get ", module_name, "' will resolve this error." >>)
     ELSE IF language = "ruby"
       THEN Fix("Gemfile",
                Put(Put(EmptyDict, "action", << "add_gem" >>), "gem", << module_name >>),
                90,
                << "Vertex AI detected missing Ruby gem '", module_name,
                   "'. Adding to Gemfile will resolve this error." >>)
     ELSE GenericFix(module_name, language)

FixLanguages == { Languages[i] : i \in 1..Len(Languages) } \cup { "kotlin" }

FixModules == { "", "tokio", "cv2", "org.springframework.boot" }

\* error_details as a caller passes it: each key present or absent
FixDetails ==
  { [k \in { key \in {"language", "missing_module", "build_tool"} :
               << l, m, b >>[IF key = "language" THEN 1
                             ELSE IF key = "missing_module" THEN 2 ELSE 3] # Missing }
       |-> IF k = "language" THEN l ELSE IF k = "missing_module" THEN m ELSE b] :
      l \in FixLanguages \cup { Missing },
      m \in FixModules \cup { Missing },
      b \in { "maven", "gradle", Missing } }

FixInputs ==
  { [error_details |-> e, job_log |-> l] :
      e \in FixDetails, l \in { k \in Logs : Cardinality(k) <= 1 } }

InitFix ==
  /\ now = 0
  /\ token = FALSE
  /\ model = FALSE
  /\ processed_pipelines = [p \in Pipelines |-> DatetimeMin]
  /\ created_mrs = EmptyDict
  /\ dlv = [d \in Deliveries |-> Idle]
  /\ an_in \in FixInputs
  /\ an_out = [done |-> FALSE, outcome |-> Raised]

CallFixDependency ==
  /\ ~an_out.done
  /\ an_out' = [done |-> TRUE,
                outcome |-> Returned(fix_dependency_error(an_in.error_details, an_in.job_log))]
  /\ UNCHANGED << now, token, model, processed_pipelines, created_mrs, dlv, an_in >>

NextFix == CallFixDependency

SpecFix == InitFix /\ [][NextFix]_vars

\* ================================================================ claims
\* The awaits of create_fix_mr.
CreatePcs == {"create_branch", "create_commit", "create_mr"}

\* The delivery went past the check of the reprocessing window.
PassedCheck(r) ==
  \/ r.pc \in {"sleep5", "get_jobs", "sleep3", "get_jobs2", "get_trace",
               "retry_job", "comment"} \cup CreatePcs
  \/ r.pc = "done" /\ r.response.status \in {"analyzed", "error"}

SkippedResponse ==
  [NoResponse EXCEPT !.status = "skipped", !.reason = "recently_processed"]

\* The counters and the analysis results of a delivery, read from its
\* locals while it runs and from its response once it has returned.
Counts(r) ==
  IF r.pc = "done"
  THEN << r.response.jobs_analyzed, r.response.jobs_retried,
          r.response.comments_posted, r.response.mrs_created >>
  ELSE << r.analyzed_count, r.retry_count, r.comment_count, r.mr_count >>

Results(r) == IF r.pc = "done" THEN r.response.analyses ELSE r.analyses

\* A merge request is recorded for key less than an hour before t.
RecordedBefore(key, t) ==
  /\ key \in DOMAIN created_mrs
  /\ created_mrs[key] # <<>>
  /\ t - created_mrs[key][Len(created_mrs[key])].timestamp < 60

LastRecorded(key) == created_mrs[key][Len(created_mrs[key])]

\* C1: once pipeline P is marked at time t, a failed-pipeline delivery for P
\* arriving at t' with t' - t < 10 minutes returns at once with status
\* "skipped" and reason "recently_processed", having fetched no jobs and made
\* no analysis, retry, comment or merge request, and leaves the mark and
\* created_mrs alone; one arriving with t' - t >= 10 minutes is marked at t'
\* and goes on to be processed.
C1_RecentlyProcessedWindow ==
  [][\A d \in Deliveries :
       ( /\ dlv[d].pc = "idle"
         /\ dlv'[d].pc # "idle"
         /\ dlv'[d].event = "Pipeline Hook"
         /\ dlv'[d].status = "failed"
         /\ processed_pipelines[dlv'[d].pipeline_id] # DatetimeMin )
       => IF now' - processed_pipelines[dlv'[d].pipeline_id] < 10
          THEN /\ dlv'[d].pc = "done"
               /\ dlv'[d].response = SkippedResponse
               /\ processed_pipelines' = processed_pipelines
               /\ created_mrs' = created_mrs
          ELSE /\ dlv'[d].pc = "sleep5"
               /\ processed_pipelines'[dlv'[d].pipeline_id] = now']_vars

\* A delivery arrived five minutes after the mark of its pipeline and was
\* skipped.
C1_Witness ==
  \E d \in Deliveries :
    /\ dlv[d].pc = "done"
    /\ dlv[d].response = SkippedResponse
    /\ dlv[d].received_at - processed_pipelines[dlv[d].pipeline_id] = 5

\* C2: retry_job is called only for an analysis whose recommended_action is
\* "retry" and whose error_category is transient, network or timeout.
C2_RetryOnlyTransient ==
  \A d \in Deliveries :
    dlv[d].pc = "retry_job"
    => /\ dlv[d].analysis["recommended_action"] = "retry"
       /\ dlv[d].analysis["error_category"] \in {"transient", "network", "timeout"}

\* A retry_job request is in flight.
C2_Witness ==
  \E d \in Deliveries :
    /\ dlv[d].pc = "retry_job"
    /\ dlv[d].analysis["error_category"] = "timeout"

C4_AnalyzeNeverRaises ==
  an_out.done
  => /\ ~an_out.outcome.raised
     /\ RequiredFields \subseteq DOMAIN an_out.outcome.value
     /\ (~an_in.model \/ an_in.oracle.kind \in {"raises", "no_json", "bad_json"})
        => /\ an_out.outcome.value = get_fallback_analysis(an_in.job_log)
           /\ an_out.outcome.value["error_category"] \in
                {"dependency", "syntax_error", "timeout", "configuration",
                 "failed_test", "security", "transient", "other"}

\* The oracle call raised and the fallback answered.
C4_Witness ==
  /\ an_out.done
  /\ an_in.model
  /\ an_in.oracle.kind = "raises"
  /\ an_out.outcome.value["error_category"] = "timeout"

\* C5 as stated: of two deliveries for different pipelines, at most one
\* records a merge request for a key within an hour.
C5_AtMostOneMrPerKey ==
  \A k \in DOMAIN created_mrs :
    \A i, j \in 1..Len(created_mrs[k]) :
      LET a == created_mrs[k][i]
          b == created_mrs[k][j]
      IN ( /\ i < j
           /\ dlv[a.url[1]].pc \notin {"idle", "closed"}
           /\ dlv[b.url[1]].pc \notin {"idle", "closed"}
           /\ dlv[a.url[1]].pipeline_id # dlv[b.url[1]].pipeline_id )
         => b.timestamp - a.timestamp >= 60

\* C6: of the deliveries for one pipeline_id arriving less than ten minutes
\* apart, at most one goes past the recently-processed check, because the
\* mark of a delivery that went past it is already written at every
\* suspension point of that delivery.
C6_AtMostOnePasses ==
  /\ \A d \in Deliveries :
       PassedCheck(dlv[d])
       => processed_pipelines[dlv[d].pipeline_id] >= dlv[d].received_at
  /\ \A d1, d2 \in Deliveries :
       ( /\ d1 # d2
         /\ PassedCheck(dlv[d1])
         /\ PassedCheck(dlv[d2])
         /\ dlv[d1].pipeline_id = dlv[d2].pipeline_id
         /\ dlv[d1].received_at <= dlv[d2].received_at )
       => dlv[d2].received_at - dlv[d1].received_at >= 10

\* While one delivery of a pipeline is suspended past the check, another
\* delivery for the same pipeline has been skipped.
C6_Witness ==
  \E d1, d2 \in Deliveries :
    /\ dlv[d1].pc \in {"sleep5", "get_jobs", "get_trace"} \cup CreatePcs
    /\ dlv[d2].pc = "done"
    /\ dlv[d2].response = SkippedResponse
    /\ dlv[d2].pipeline_id = dlv[d1].pipeline_id

\* C7: when create_fix_mr reports failure, at whichever of its requests,
\* nothing is added to created_mrs, the marks, the counters and the results
\* of the earlier jobs stay as they were, and the job's own result says
\* mr_created false.
C7_FailedFixLeavesNoTrace ==
  [][\A d \in Deliveries :
       ( /\ dlv[d].pc \in CreatePcs
         /\ dlv'[d].pc \notin CreatePcs
         /\ ~Results(dlv'[d])[Len(Results(dlv'[d]))].mr_created )
       => /\ created_mrs' = created_mrs
          /\ processed_pipelines' = processed_pipelines
          /\ Counts(dlv'[d]) = Counts(dlv[d])
          /\ Len(Results(dlv'[d])) = Len(dlv[d].analyses) + 1
          /\ SubSeq(Results(dlv'[d]), 1, Len(dlv[d].analyses)) = dlv[d].analyses]_vars

\* After a failed create_fix_mr, a later job with the same key, none being
\* recorded, has reached create_fix_mr again.
C7_Witness ==
  \E d \in Deliveries :
    /\ dlv[d].pc = "create_branch"
    /\ MrKey(dlv[d].analysis) \in dlv[d].fix_failed
    /\ MrKey(dlv[d].analysis) \notin DOMAIN created_mrs

\* C8: create_fix_mr is called only for an analysis whose recommended_action
\* is "automatic_fix", whose error_category is dependency, syntax_error,
\* timeout, security or configuration, and for which suggest_fix returned
\* success.
C8_FixOnlyWhenSuggested ==
  \A d \in Deliveries :
    dlv[d].pc \in CreatePcs
    => /\ dlv[d].analysis["recommended_action"] = "automatic_fix"
       /\ dlv[d].analysis["error_category"] \in
            {"dependency", "syntax_error", "timeout", "security", "configuration"}
       /\ suggest_fix(dlv[d].analysis["error_category"],
                      dlv[d].analysis["error_details"].map,
                      dlv[d].job_log) = Returned(TRUE)

\* The merge request of a configuration fix is being opened.
C8_Witness ==
  \E d \in Deliveries :
    /\ dlv[d].pc = "create_mr"
    /\ dlv[d].analysis["error_category"] = "configuration"

\* C9 as stated: every analysis returned has error_category and
\* recommended_action that are not null and an error_details that is a
\* mapping.
C9_NoNullFields ==
  an_out.done
  => /\ ~an_out.outcome.raised
     /\ an_out.outcome.value["error_category"] # None
     /\ an_out.outcome.value["recommended_action"] # None
     /\ an_out.outcome.value["error_details"].tag = "dict"

\* C10 as stated: every analysis returned has recommended_action among
\* retry, automatic_fix and manual_fix and error_category in the taxonomy.
C10_ValuesInEnumerations ==
  an_out.done
  => /\ ~an_out.outcome.raised
     /\ an_out.outcome.value["recommended_action"] \in
          {"retry", "automatic_fix", "manual_fix"}
     /\ an_out.outcome.value["error_category"] \in
          {"dependency", "syntax_error", "timeout", "configuration",
           "failed_test", "security", "transient", "other"}

\* C11 as stated: a delivery that has been accepted is eventually answered,
\* whatever the oracle does, and so is every other delivery in flight.
C11_DeliveryEventuallyAnswered ==
  \A d \in Deliveries :
    (dlv[d].pc \notin {"idle", "done", "closed"}) ~> (dlv[d].pc \in {"done", "closed"})

\* C12 as stated: no delivery is answered with status "error" on account
\* of an exception raised while a fix is suggested for one of its jobs; the
\* jobs after that one are still analysed and the answer is "analyzed".
C12_FixSuggestionFailureNotFatal ==
  \A d \in Deliveries :
    dlv[d].pc = "done"
    => ~(dlv[d].response.status = "error" /\ dlv[d].response.message = OperandError)

\* C13 as stated: a delivery whose job-listing request failed is answered
\* with status "error".
C13_ListingFailureIsError ==
  \A d \in Deliveries :
    (dlv[d].pc = "done" /\ dlv[d].listing_failed) => dlv[d].response.status = "error"

\* C14 as stated: a fix for which create_fix_mr is called (automatic_fix, no
\* unexpired merge request for the key, suggest_fix successful) ends in a
\* merge request when every request succeeds; so for each such fix
\* _create_fix_commit has a commit to post once the branch exists.
C14_EveryFixTypeCommits ==
  \A d \in Deliveries :
    dlv[d].pc = "create_branch"
    => HasCommitPayload(dlv[d].analysis["error_category"],
                        dlv[d].analysis["error_details"].map)

\* C15 as stated: the timeout check is the first of the fallback's checks,
\* so whenever the fallback answers for a log with a timed-out line the
\* category is timeout, whatever else the log matches.
C15_TimeoutCheckFirst ==
  ( /\ an_out.done
    /\ ~an_in.model \/ an_in.oracle.kind \in {"raises", "no_json", "bad_json"}
    /\ "timed_out" \in an_in.job_log )
  => an_out.outcome.value["error_category"] = "timeout"

\* The language whose score is strictly above every other language's, and
\* python when there is none.
StrictlyHighest(job_log, job_name) ==
  LET langs == {Languages[i] : i \in DOMAIN Languages}
      top == {l \in langs : \A m \in langs : Score(m, job_log, job_name)
                                               <= Score(l, job_log, job_name)}
  IN IF Cardinality(top) = 1 THEN CHOOSE l \in top : TRUE ELSE "python"

\* C16 as stated: the language detected for a job (which analyze_failure
\* writes into the oracle's object) is the one with the strictly highest
\* count of matching signatures, and python on a tie or when no signature
\* matches.
C16_TiesResolveToPython ==
  (an_out.done /\ an_in.model /\ an_in.oracle.kind = "json")
  => an_out.outcome.value["language"] = StrictlyHighest(an_in.job_log, an_in.job_name)

\* round(n / 2) for a natural number n, as Python rounds: to the nearest
\* integer, and to the even one when n / 2 lies halfway between two.
RoundHalf(n) ==
  IF n % 2 = 0 THEN n \div 2
  ELSE IF (n \div 2) % 2 = 0 THEN n \div 2 ELSE n \div 2 + 1

\* C17 as stated: for every non-negative integer current_timeout the
\* timeout fix proposes new_timeout = round(current_timeout * 1.5).
C17_NewTimeoutIsRounded ==
  an_out.done
  => an_out.outcome.value.new_timeout = RoundHalf(3 * an_in.current_timeout)


\* ---- predictor claims: the factors whose condition holds for an input, as
\* pairs of factor name and contribution, and their capped sum
When(condition, pair) == IF condition THEN { pair } ELSE {}

HoldingFactors(in) ==
  LET h == in.historical_data
  IN    When(in.hour \in 0..5,
             << "late_night_deployment", (540 * Unit) \div 1000 >>)
   \cup When(in.weekday = 4 /\ in.hour >= 15,
             << "friday_deployment", (375 * Unit) \div 1000 >>)
   \cup When(in.weekday = 0 /\ in.hour \in 7..9,
             << "monday_morning_surge", (280 * Unit) \div 1000 >>)
   \cup When(in.recent_commits > 10,
             << "rapid_commits", (480 * Unit) \div 1000 >>)
   \cup When(h.total_pipelines > 0 /\ 10 * h.failed_count > 3 * h.total_pipelines,
             << "high_historical_failure_rate",
                (h.failed_count * Unit) \div (2 * h.total_pipelines) >>)
   \cup When(h.hour_failures > 0 /\ 5 * h.hour_failures > h.total_pipelines,
             << "high_failure_hour",
                (3 * h.hour_failures * Unit) \div (10 * h.total_pipelines) >>)

RECURSIVE SumOf(_)
SumOf(pairs) ==
  IF pairs = {} THEN 0
  ELSE LET p == CHOOSE q \in pairs : TRUE
       IN p[2] + SumOf(pairs \ {p})

CappedSum(in) == IF SumOf(HoldingFactors(in)) > Unit THEN Unit ELSE SumOf(HoldingFactors(in))

ListedFactors(out) ==
  { << out.risk_factors[i].factor, out.risk_factors[i].contribution >> :
      i \in 1..Len(out.risk_factors) }

ExactFactorList(in, out) ==
  /\ ListedFactors(out) = HoldingFactors(in)
  /\ Len(out.risk_factors) = Cardinality(HoldingFactors(in))

\* C18 (as stated): for every hour, weekday, recent commit count and
\* historical data, the returned risk_score equals min(1.0, the sum of the
\* contributions of exactly the factors whose condition holds), lies in
\* [0, 1], and risk_factors lists exactly those factors and contributions.
C18_ScoreIsCappedSum ==
  an_out.done
  => LET out == an_out.outcome.value
     IN /\ out.risk_score = CappedSum(an_in)
        /\ 0 <= out.risk_score /\ out.risk_score <= Unit
        /\ ExactFactorList(an_in, out)

\* C18 (amended): the returned risk_score is that capped sum rounded to the
\* nearest thousandth; the bounds and the factor list are as stated.
C18_ScoreIsRoundedCappedSum ==
  an_out.done
  => LET out == an_out.outcome.value
         diff == out.risk_score - CappedSum(an_in)
     IN /\ (out.risk_score * 1000) % Unit = 0
        /\ 2 * 1000 * diff <= Unit /\ 2 * 1000 * (0 - diff) <= Unit
        /\ 0 <= out.risk_score /\ out.risk_score <= Unit
        /\ ExactFactorList(an_in, out)

\* a late-night run of a project with one failure in three pipelines: two
\* factors, 0.54 + 0.1666..., returned as 0.707
C18_Witness ==
  /\ an_out.done
  /\ an_in.hour = 2
  /\ an_in.historical_data = [total_pipelines |-> 3, failed_count |-> 1, hour_failures |-> 0]
  /\ an_in.recent_commits = 0
  /\ Len(an_out.outcome.value.risk_factors) = 2
  /\ an_out.outcome.value.risk_score * 1000 = 707 * Unit

\* C19: risk_level is the level of the highest threshold among critical
\* 0.85, high 0.7, medium 0.5 and low 0.3 that the capped score meets or
\* exceeds, and low when the score is below every threshold.
C19_LevelOfHighestThresholdMet ==
  an_out.done
  => LET score == 1000 * CappedSum(an_in)
         level == an_out.outcome.value.risk_level
     IN /\ score >= 850 * Unit => level = "critical"
        /\ (score >= 700 * Unit /\ score < 850 * Unit) => level = "high"
        /\ (score >= 500 * Unit /\ score < 700 * Unit) => level = "medium"
        /\ score < 500 * Unit => level = "low"

\* every pipeline of the history failed, none in this hour: the score is
\* exactly the medium threshold
C19_Witness ==
  /\ an_out.done
  /\ 1000 * CappedSum(an_in) = 500 * Unit
  /\ an_in.historical_data.failed_count = an_in.historical_data.total_pipelines
  /\ an_out.outcome.value.risk_level = "medium"

FridayAfternoonOnly ==
  /\ an_out.done
  /\ an_in.weekday = 4
  /\ an_in.hour = 16
  /\ an_in.recent_commits <= 10
  /\ 10 * an_in.historical_data.failed_count <= 3 * an_in.historical_data.total_pipelines
  /\ 5 * an_in.historical_data.hour_failures <= an_in.historical_data.total_pipelines

\* C20 (as stated): Friday 16:00 with no other factor yields risk_score
\* 0.375 and risk_level medium.
C20_FridayAfternoonIsMedium ==
  FridayAfternoonOnly
  => /\ an_out.outcome.value.risk_score * 1000 = 375 * Unit
     /\ an_out.outcome.value.risk_level = "medium"

\* C20 (amended): Friday 16:00 with no other factor yields risk_score 0.375
\* and risk_level low, 0.375 being below the medium threshold 0.5.
C20_FridayAfternoonIsLow ==
  FridayAfternoonOnly
  => /\ an_out.outcome.value.risk_score * 1000 = 375 * Unit
     /\ an_out.outcome.value.risk_level = "low"

C20_Witness ==
  /\ FridayAfternoonOnly
  /\ an_in.recent_commits = 10
  /\ an_in.historical_data = [total_pipelines |-> 3, failed_count |-> 0, hour_failures |-> 0]
  /\ Len(an_out.outcome.value.risk_factors) = 1
  /\ an_out.outcome.value.risk_factors[1].factor = "friday_deployment"


\* what the code answers for a primary risk factor, by its name
AnswerFor(primary) ==
  IF primary.factor = "rapid_commits"
    THEN << "syntax_error", "Run local tests before pushing" >>
  ELSE IF primary.factor = "monday_morning_surge"
    THEN << "resource_exhaustion", "Increase runner resources or wait" >>
  ELSE << "general_failure", primary.mitigation >>

\* position i holds the largest contribution of the list, and is the first
\* position to hold it
IsArgmax(risk_factors, i) ==
  /\ \A j \in 1..Len(risk_factors) :
       risk_factors[j].contribution <= risk_factors[i].contribution
  /\ \A j \in 1..(i - 1) :
       risk_factors[j].contribution # risk_factors[i].contribution

\* C21: likely_failure and prevention are a function of the single risk
\* factor with the largest contribution alone, whatever the aggregate score
\* and the other factors, and they are unknown and Monitor pipeline closely
\* exactly when no risk factor applies.
C21_AnswerFollowsLargestFactor ==
  an_out.done
  => LET out == an_out.outcome.value
         answer == << out.likely_failure, out.prevention >>
     IN /\ (out.risk_factors = << >>) <=> (answer = << "unknown", "Monitor pipeline closely" >>)
        /\ out.risk_factors # << >>
           => \E i \in 1..Len(out.risk_factors) :
                IsArgmax(out.risk_factors, i) /\ answer = AnswerFor(out.risk_factors[i])

\* a Monday 08:00 run after eleven commits: the surge factor comes first in
\* the list, the commit factor contributes more and decides the answer
C21_Witness ==
  /\ an_out.done
  /\ an_in.weekday = 0 /\ an_in.hour = 8 /\ an_in.recent_commits = 11
  /\ an_in.historical_data.total_pipelines = 0
  /\ Len(an_out.outcome.value.risk_factors) = 2
  /\ an_out.outcome.value.likely_failure = "syntax_error"
  /\ an_out.outcome.value.risk_level = "high"


\* the error_details the oracle's object carried into the enrichment step
\* as a dict, and the error_details of the analysis returned
OracleSuppliedDetails ==
  /\ an_out.done
  /\ an_in.model
  /\ an_in.oracle.kind = "json"
  /\ "error_details" \in DOMAIN an_in.oracle.obj
  /\ an_in.oracle.obj["error_details"].tag = "dict"

\* C22: the language-specific enrichment only adds keys to error_details:
\* every key present before enrichment keeps its value, and when the
\* category is not dependency error_details is left unchanged.
C22_EnrichmentOnlyAdds ==
  OracleSuppliedDetails
  => LET before == an_in.oracle.obj["error_details"].map
         after == an_out.outcome.value["error_details"].map
     IN /\ \A k \in DOMAIN before : k \in DOMAIN after /\ after[k] = before[k]
        /\ an_out.outcome.value["error_category"] # "dependency" => after = before


Mentions(text, value) == \E i \in 1..Len(text) : text[i] = value

\* a dependency error whose missing module is known, in a language without
\* a handler of its own
GenericDependencyCase ==
  /\ an_out.done
  /\ "missing_module" \in DOMAIN an_in.error_details
  /\ an_in.error_details["missing_module"] # ""
  /\ "language" \in DOMAIN an_in.error_details
  /\ an_in.error_details["language"] \notin {"python", "javascript", "java", "go", "ruby"}

\* C23: for a dependency error with a known missing module and a language
\* other than python, javascript, java, go and ruby, the fix suggestion
\* succeeds with a manual instruction that names the language and the module.
C23_GenericLanguageSucceeds ==
  GenericDependencyCase
  => LET out == an_out.outcome.value
         language == an_in.error_details["language"]
         module_name == an_in.error_details["missing_module"]
     IN /\ ~an_out.outcome.raised
        /\ out.success
        /\ out.suggestion.file = "manual"
        /\ Mentions(out.suggestion.fields["instruction"], language)
        /\ Mentions(out.suggestion.fields["instruction"], module_name)
        /\ Mentions(out.explanation, language)
        /\ Mentions(out.explanation, module_name)

C23_Witness ==
  /\ GenericDependencyCase
  /\ an_in.error_details["language"] = "kotlin"
  /\ an_in.error_details["missing_module"] = "tokio"
  /\ an_out.outcome.value.confidence = 70


\* C24: a job that is retried (recommended_action retry with category
\* transient, network or timeout) is never also given a fix merge request
\* nor marked as having an existing fix (mr_exists / mr_url) in the same
\* delivery.
C24_RetriedJobHasNoMr ==
  \A d \in Deliveries :
    dlv[d].pc = "retry_job"
    => /\ "mr_url" \notin DOMAIN dlv[d].analysis
       /\ "mr_exists" \notin DOMAIN dlv[d].analysis
       /\ "mr_created" \notin DOMAIN dlv[d].analysis


\* delivery d leaves idle in this step without processing a failed
\* pipeline: another event, another status, or a pipeline marked less than
\* ten minutes before
NotProcessing(d) ==
  /\ dlv[d].pc = "idle"
  /\ dlv'[d].pc # "idle"
  /\ \/ dlv'[d].event # "Pipeline Hook"
     \/ dlv'[d].status # "failed"
     \/ dlv'[d].received_at - processed_pipelines[dlv'[d].pipeline_id] < 10

\* C25: a delivery that does not process a failed pipeline leaves the
\* timestamps of processed_pipelines and the entries of created_mrs
\* unchanged; a skipped delivery does not refresh the mark.
C25_NotProcessingChangesNothing ==
  [][ \A d \in Deliveries :
        NotProcessing(d)
        => /\ processed_pipelines' = processed_pipelines
           /\ created_mrs' = created_mrs
           /\ dlv'[d].pc = "done" ]_vars

\* a delivery skipped five minutes after the mark, the mark still the old one
C25_Witness ==
  \E d \in Deliveries :
    /\ dlv[d].pc = "done"
    /\ dlv[d].response.reason = "recently_processed"
    /\ processed_pipelines[dlv[d].pipeline_id] = dlv[d].received_at - 5
    /\ now = dlv[d].received_at


\* C26: within one delivery at most one commit comment is posted:
\* comments_posted is 0 or 1 in every response, and once a comment has
\* been posted the delivery makes no further create_commit_comment call.
C26_AtMostOneComment ==
  \A d \in Deliveries :
    /\ dlv[d].comment_count \in {0, 1}
    /\ dlv[d].pc = "comment" => dlv[d].comment_count = 0
    /\ dlv[d].pc = "done" => dlv[d].response.comments_posted \in {0, 1}

\* two jobs analysed, the first one's comment posted, the delivery answered
C26_Witness ==
  \E d \in Deliveries :
    /\ dlv[d].pc = "done"
    /\ dlv[d].response.status = "analyzed"
    /\ dlv[d].response.jobs_analyzed = 2
    /\ dlv[d].response.comments_posted = 1


\* C27 (as stated): for any pipeline, within any 10-minute window at most
\* one delivery invokes retry_job, and it invokes it at most once per
\* failed job of the listing.
C27_OneRetryingDeliveryPerWindow ==
  \A p \in Pipelines :
    \A d, e \in { x \in Deliveries : dlv[x].pipeline_id = p } :
      /\ \A i, j \in 1..Len(dlv[d].retried) :
           dlv[d].retried[i].job = dlv[d].retried[j].job => i = j
      /\ d # e
         => \A i \in 1..Len(dlv[d].retried), j \in 1..Len(dlv[e].retried) :
              \/ dlv[d].retried[i].at - dlv[e].retried[j].at >= 10
              \/ dlv[e].retried[j].at - dlv[d].retried[i].at >= 10

\* C27 (amended): two deliveries for the same pipeline that both invoke
\* retry_job were received at least ten minutes apart, and a delivery
\* invokes retry_job at most once per failed job of the listing.
C27_RetryingDeliveriesReceivedApart ==
  \A p \in Pipelines :
    \A d, e \in { x \in Deliveries : dlv[x].pipeline_id = p } :
      /\ \A i, j \in 1..Len(dlv[d].retried) :
           dlv[d].retried[i].job = dlv[d].retried[j].job => i = j
      /\ Len(dlv[d].retried) <= MaxJobs
      /\ (d # e /\ dlv[d].retried # << >> /\ dlv[e].retried # << >>)
         => \/ dlv[d].received_at - dlv[e].received_at >= 10
            \/ dlv[e].received_at - dlv[d].received_at >= 10

\* two deliveries for one pipeline, received ten minutes apart, the first
\* having retried both of its jobs and the second retrying one
C27_Witness ==
  \E d, e \in Deliveries :
    /\ d # e
    /\ dlv[d].pipeline_id = dlv[e].pipeline_id
    /\ Len(dlv[d].retried) = 2
    /\ dlv[e].retried # << >>
    /\ dlv[e].received_at - dlv[d].received_at = 10


\* create_fix_mr has returned for the current job of delivery d
FixReturned(d) == dlv[d].fix_steps # << >> /\ dlv[d].pc \notin {"create_commit", "create_mr"}

\* the requests made are branch, commit, merge request in this order, each
\* made only after the one before it succeeded, and success is reported
\* only after three successful requests
OrderedUntilFailure(d) ==
  LET steps == dlv[d].fix_steps
  IN /\ Len(steps) <= 3
     /\ \A i \in 1..Len(steps) : steps[i].step = << "branch", "commit", "mr" >>[i]
     /\ \A i \in 1..(Len(steps) - 1) : steps[i].outcome = "ok"
     /\ dlv[d].mr_result.success
        => Len(steps) = 3 /\ \A i \in 1..3 : steps[i].outcome = "ok"
     /\ (FixReturned(d) /\ Len(steps) = 3 /\ steps[3].outcome = "ok")
        => dlv[d].mr_result.success

\* the step at which a failed create_fix_mr stopped: the one whose request
\* did not succeed, or the commit when no commit could be built
FailedStep(d) ==
  LET steps == dlv[d].fix_steps
  IN IF steps[Len(steps)].outcome # "ok" THEN steps[Len(steps)].step ELSE "commit"

ErrorNaming(step) ==
  IF step = "branch" THEN "branch_creation_failed"
  ELSE IF step = "commit" THEN "commit_failed"
  ELSE "mr_creation_failed"

\* C28 (as stated): create_fix_mr requests branch, commit and merge request
\* strictly in this order and stops at the first step that fails; success
\* is reported only if all three succeeded, otherwise the error names the
\* failed step.
C28_OrderedAndErrorNamesStep ==
  \A d \in Deliveries :
    /\ OrderedUntilFailure(d)
    /\ (FixReturned(d) /\ ~dlv[d].mr_result.success)
       => dlv[d].mr_result.error = ErrorNaming(FailedStep(d))

\* C28 (amended): as stated, except that the error names the failed step
\* only when the step answered with a failure status (or no commit could
\* be built); when a request raises, the error is the exception's text.
C28_OrderedAndErrorNamesRefusedStep ==
  \A d \in Deliveries :
    /\ OrderedUntilFailure(d)
    /\ (FixReturned(d) /\ ~dlv[d].mr_result.success)
       => LET last == dlv[d].fix_steps[Len(dlv[d].fix_steps)]
          IN IF last.outcome = "raised"
             THEN dlv[d].mr_result.error = "Cannot connect to host"
             ELSE dlv[d].mr_result.error = ErrorNaming(FailedStep(d))

\* the branch was created, the commit was refused, no merge request asked
C28_Witness ==
  \E d \in Deliveries :
    /\ dlv[d].fix_steps = << [step |-> "branch", outcome |-> "ok"],
                             [step |-> "commit", outcome |-> "refused"] >>
    /\ dlv[d].mr_result = [success |-> FALSE, error |-> "commit_failed"]
    /\ dlv[d].pc = "comment"


\* delivery d is for a failed pipeline and was not skipped: it has left
\* idle past the check, whatever it has done since and however it ended
Processing(d) ==
  /\ dlv[d].pc \notin {"idle", "closed"}
  /\ dlv[d].event = "Pipeline Hook"
  /\ dlv[d].status = "failed"
  /\ ~(dlv[d].pc = "done" /\ dlv[d].response.reason = "recently_processed")

\* C29: the pipeline is marked before its jobs are fetched and the mark is
\* never rolled back: whatever the outcome of the delivery, the mark of
\* its arrival stays, no mark ever moves back, and a delivery for the same
\* pipeline arriving less than ten minutes after the mark is skipped as
\* recently_processed.
C29_MarkIsKept ==
  /\ [](\A d \in Deliveries :
          Processing(d) => processed_pipelines[dlv[d].pipeline_id] >= dlv[d].received_at)
  /\ [][ /\ \A p \in Pipelines : processed_pipelines'[p] >= processed_pipelines[p]
         /\ \A d \in Deliveries :
              ( /\ dlv[d].pc = "idle" /\ dlv'[d].pc # "idle"
                /\ dlv'[d].event = "Pipeline Hook" /\ dlv'[d].status = "failed"
                /\ dlv'[d].received_at - processed_pipelines[dlv'[d].pipeline_id] < 10 )
              => /\ dlv'[d].pc = "done"
                 /\ dlv'[d].response.status = "skipped"
                 /\ dlv'[d].response.reason = "recently_processed" ]_vars

\* a delivery answered with an error, its pipeline still marked with the
\* time of its arrival
C29_Witness ==
  \E d \in Deliveries :
    /\ dlv[d].pc = "done"
    /\ dlv[d].response.status = "error"
    /\ processed_pipelines[dlv[d].pipeline_id] = dlv[d].received_at
    /\ now > dlv[d].received_at


\* C30: in the response a job's flag mr_created is true exactly when a
\* merge request was created for that job during this delivery, so the
\* number of analyses flagged mr_created equals the count mrs_created.
C30_FlagCountsCreatedMrs ==
  \A d \in Deliveries :
    (dlv[d].pc = "done" /\ dlv[d].response.status = "analyzed")
    => Cardinality({ i \in 1..Len(dlv[d].response.analyses) :
                       dlv[d].response.analyses[i].mr_created })
         = dlv[d].response.mrs_created

====
